---- MODULE Spec2Model ----
(***************************************************************************)
(* Plan / step persistence and authorization layer of lawncare-pro         *)
(* (server/lib/setupPlanRoutes.ts).                                        *)
(*                                                                         *)
(* The route handlers are modelled at statement granularity: every         *)
(* `await db.query(...)` is one step, and the synchronous code that        *)
(* follows an await up to the next await (res.json, next(err), the finally *)
(* block) runs in the same step, as it does on the node event loop.        *)
(*                                                                         *)
(* The store is PostgreSQL at READ COMMITTED: a transaction's writes are   *)
(* kept in a private overlay (wplans, wsteps) until COMMIT; a row a        *)
(* transaction has written is locked, and a write statement of another     *)
(* connection that targets it waits.  Reads never wait and see the         *)
(* committed store overlaid with the connection's own writes.              *)
(***************************************************************************)
EXTENDS Integers, Sequences, FiniteSets, TLC

VARIABLES
  plans,       \* committed "UserPlans": userPlanId -> row or Absent
  steps,       \* committed "PlanSteps": planStepId -> row or Absent
  nextStepId,  \* the serial sequence behind "PlanSteps"."planStepId"
  req,         \* the request each handler invocation is serving, with its position
  wplans,      \* per connection: uncommitted writes to "UserPlans"
  wsteps,      \* per connection: uncommitted writes to "PlanSteps"
  checkedOut,  \* clients checked out of the pg Pool
  faults,      \* store failures injected so far
  started,     \* requests received so far
  assigned     \* per plan: the highest stepOrder addStep has assigned (0: none yet)

vars ==
  <<plans, steps, nextStepId, req, wplans, wsteps, checkedOut, faults, started,
    assigned>>

----------------------------------------------------------------------------
(* Bounds *)

NumSlots == 2        \* handler invocations in flight at once (ConcSpec)
MaxStepId == 2       \* planStepId values the sequence hands out
MaxFaults == 1       \* failing store calls per behaviour
MaxRequests == 3     \* requests per behaviour, one after the other (Spec)

----------------------------------------------------------------------------
(* Values *)

NULL == "null"                    \* SQL NULL in a text or timestamp column
None == 0                         \* no integer: SQL NULL, or a parameter the route lacks
Absent == [absent |-> TRUE]       \* no row, no record
Untouched == [mark |-> "untouched"]
Deleted == [mark |-> "deleted"]

Users == {1, 2}
PlanIds == {1, 2}
UnusedPlanId == 3                 \* a :planId no "UserPlans" row has ever had
StepIds == 1..MaxStepId
Slots == 1..NumSlots

\* "GrassSpecies", the reference data the plan queries join for the name.
GrassSpecies == [id \in {1, 2} |-> [name |-> IF id = 1 THEN "Bermuda" ELSE "Fescue"]]

\* Plan p was created by user p.
InitialOwner(p) == p

InitialPlan(p) ==
  [userPlanId |-> p, userId |-> InitialOwner(p), grassSpeciesId |-> 1,
   planType |-> "new_lawn", establishmentType |-> "sod_plugs",
   isCompleted |-> FALSE, isArchived |-> FALSE, createdAt |-> p]

Idle ==
  [op |-> "none", pc |-> "idle", userId |-> None, pathUser |-> None,
   planId |-> None, stepId |-> None, body |-> Absent, i |-> 0,
   newStepOrder |-> None, err |-> Absent, outcome |-> Absent,
   inTx |-> FALSE, acquired |-> 0, released |-> 0, failedAt |-> "",
   wrote |-> FALSE, plan |-> Absent, sent |-> Absent]

NoWrites(S) == [x \in S |-> Untouched]

----------------------------------------------------------------------------
(* The store as one connection sees it *)

Overlay(committed, w) ==
  IF w = Untouched THEN committed ELSE IF w = Deleted THEN Absent ELSE w

ViewPlans(r) == [p \in PlanIds |-> Overlay(plans[p], wplans[r][p])]
ViewSteps(r) == [s \in StepIds |-> Overlay(steps[s], wsteps[r][s])]

\* A row written by another connection's open transaction is locked.
PlanLocked(r, p) == \E o \in Slots \ {r} : wplans[o][p] # Untouched
StepLocked(r, s) == \E o \in Slots \ {r} : wsteps[o][s] # Untouched

\* A write statement waits while a committed row it targets is locked.
PlansFree(r, targets) == \A p \in targets : ~PlanLocked(r, p)
StepsFree(r, targets) == \A s \in targets : ~StepLocked(r, s)

AsWrite(row) == IF row = Absent THEN Deleted ELSE row

\* Write rows `touched` of "UserPlans" as in `new`: into the overlay inside a
\* transaction, into the committed table in autocommit mode.
WritePlans(r, touched, new) ==
  IF req[r].inTx
    THEN /\ wplans' = [wplans EXCEPT ![r] =
                [p \in PlanIds |-> IF p \in touched THEN AsWrite(new[p]) ELSE @[p]]]
         /\ plans' = plans
    ELSE /\ plans' = [p \in PlanIds |-> IF p \in touched THEN new[p] ELSE plans[p]]
         /\ wplans' = wplans

WriteSteps(r, touched, new) ==
  IF req[r].inTx
    THEN /\ wsteps' = [wsteps EXCEPT ![r] =
                [s \in StepIds |-> IF s \in touched THEN AsWrite(new[s]) ELSE @[s]]]
         /\ steps' = steps
    ELSE /\ steps' = [s \in StepIds |-> IF s \in touched THEN new[s] ELSE steps[s]]
         /\ wsteps' = wsteps

\* Mutant: the WHERE clause without AND "userId" = $2.
AnyonesPlan(view, planId, userId) ==
  {p \in PlanIds : p = planId /\ view[p] # Absent}

\* WHERE "userPlanId" = $1 AND "userId" = $2 on "UserPlans"
OwnedPlan(view, planId, userId) ==
  {p \in PlanIds : p = planId /\ view[p] # Absent /\ view[p].userId = userId}

\* WHERE "userPlanId" = $1 on "PlanSteps"
StepsOfPlan(view, planId) ==
  {s \in StepIds : view[s] # Absent /\ view[s].userPlanId = planId}

\* Mutant: the WHERE clause without AND "userPlanId" = $2.
AnyPlansStep(view, stepId, planId) ==
  {s \in StepIds : s = stepId /\ view[s] # Absent}

\* WHERE "planStepId" = $1 AND "userPlanId" = $2 on "PlanSteps"
StepOfPlan(view, stepId, planId) ==
  {s \in StepIds : s = stepId /\ view[s] # Absent /\ view[s].userPlanId = planId}

----------------------------------------------------------------------------
(* Responses *)

Json(status, msg) == [via |-> "json", status |-> status, msg |-> msg]
ClientError(status, msg) == [via |-> "next", status |-> status, msg |-> msg]
StoreError == [via |-> "next", status |-> 500, msg |-> "store error"]
\* The handler's promise rejects: neither res.json nor next is called.
Rejected == [via |-> "none", status |-> 0, msg |-> ""]

PlanNotFound == ClientError(404, "Plan not found")
StepNotFound == ClientError(404, "Step not found")

----------------------------------------------------------------------------
(* Steps common to the handlers *)

TxOps == {"update", "complete", "delete"}
MutatingOps == {"update", "complete", "delete", "completeStep", "addStep", "deleteStep"}
Ops == MutatingOps \cup {"get", "listForUser", "saveExisting"}

FirstStatement(op) ==
  CASE op \in TxOps -> "begin"
    [] op = "get" -> "get_plan"
    [] op = "listForUser" -> "list_query"
    [] OTHER -> "check"

\* Every step of request r goes through here: the `wrote` flag records that a
\* step of this request changed the committed store.
Becomes(r, rq) ==
  req' = [req EXCEPT ![r] =
            [rq EXCEPT !.wrote = req[r].wrote \/ plans' # plans \/ steps' # steps]]

\* Mutant: the connection is released after next(err) or res.json only, so a
\* catch block that throws skips the release.
ReleaseUnlessRejected(rq) ==
  [rq EXCEPT !.pc = "done",
             !.released = IF rq.outcome.via = "none" THEN @ ELSE @ + 1]

\* finally { db.release() }
Finally(rq) == [rq EXCEPT !.pc = "done", !.released = @ + 1]

\* res.json(...) or, in a handler without a transaction, catch (err) { next(err) };
\* the finally block follows in the same turn.
Ends(r, rq, outcome) ==
  LET end == Finally([rq EXCEPT !.outcome = outcome])
  IN  /\ Becomes(r, end)
      /\ checkedOut' = checkedOut - (end.released - rq.released)

\* throw inside try of a transactional handler: control reaches
\* catch (err) { await db.query('ROLLBACK'); ... }
Throws(r, rq, err) ==
  /\ Becomes(r, [rq EXCEPT !.pc = "rollback", !.err = err])
  /\ checkedOut' = checkedOut

\* throw inside try: the catch block of the handler the request is in.
Raise(r, rq, err) ==
  IF rq.op \in TxOps THEN Throws(r, rq, err) ELSE Ends(r, rq, err)

Goes(r, rq, pc) ==
  /\ Becomes(r, [rq EXCEPT !.pc = pc])
  /\ checkedOut' = checkedOut

\* const db = await pool.connect();
Connect(r) ==
  /\ req[r].pc = "connect"
  /\ checkedOut' = checkedOut + 1
  /\ UNCHANGED <<plans, steps, nextStepId, wplans, wsteps, faults, started, assigned>>
  /\ Becomes(r, [req[r] EXCEPT !.pc = FirstStatement(req[r].op), !.acquired = @ + 1])

\* Mutant: the statements run without a transaction around them.
BeginNoTransaction(r) ==
  /\ req[r].pc = "begin"
  /\ UNCHANGED <<plans, steps, nextStepId, wplans, wsteps, faults, started, assigned>>
  /\ Goes(r, req[r],
          CASE req[r].op = "update" -> "upd_plan"
            [] req[r].op = "complete" -> "check"
            [] req[r].op = "delete" -> "del_steps")

\* await db.query('BEGIN');
Begin(r) ==
  /\ req[r].pc = "begin"
  /\ UNCHANGED <<plans, steps, nextStepId, wplans, wsteps, faults, started, assigned>>
  /\ Goes(r, [req[r] EXCEPT !.inTx = TRUE],
          CASE req[r].op = "update" -> "upd_plan"
            [] req[r].op = "complete" -> "check"
            [] req[r].op = "delete" -> "del_steps")

\* The user the ownership check asks for: saveExisting passes the :userId of
\* the path, the other handlers req.user.userId.
CheckedUser(rq) == IF rq.op = "saveExisting" THEN rq.pathUser ELSE rq.userId

\* Mutant: a plan that exists but belongs to someone else is reported as
\* forbidden rather than as not found.
CheckTellsForeign(r) ==
  /\ req[r].pc = "check"
  /\ UNCHANGED <<plans, steps, nextStepId, wplans, wsteps, faults, started, assigned>>
  /\ IF OwnedPlan(ViewPlans(r), req[r].planId, CheckedUser(req[r])) = {}
       THEN Raise(r, req[r],
                  IF AnyonesPlan(ViewPlans(r), req[r].planId, CheckedUser(req[r])) # {}
                    THEN ClientError(403, "Forbidden")
                    ELSE PlanNotFound)
       ELSE CASE req[r].op = "completeStep" -> Goes(r, req[r], "cs_update")
              [] req[r].op = "complete" -> Goes(r, req[r], "cp_plan")
              [] req[r].op = "addStep" -> Goes(r, req[r], "max")
              [] req[r].op = "deleteStep" -> Goes(r, req[r], "ds_delete")
              [] req[r].op = "saveExisting" ->
                   Ends(r, req[r], Json(200, "Plan saved to profile successfully"))

\* SELECT * FROM "UserPlans" WHERE "userPlanId" = $1 AND "userId" = $2, and
\* if (planResult.rows.length === 0) throw new ClientError(404, ...)
Check(r) ==
  /\ req[r].pc = "check"
  /\ UNCHANGED <<plans, steps, nextStepId, wplans, wsteps, faults, started, assigned>>
  /\ IF OwnedPlan(ViewPlans(r), req[r].planId, CheckedUser(req[r])) = {}
       THEN Raise(r, req[r],
                  IF req[r].op = "saveExisting"
                    THEN ClientError(404, "Plan not found or does not belong to the user")
                    ELSE PlanNotFound)
       ELSE CASE req[r].op = "completeStep" -> Goes(r, req[r], "cs_update")
              [] req[r].op = "complete" -> Goes(r, req[r], "cp_plan")
              [] req[r].op = "addStep" -> Goes(r, req[r], "max")
              [] req[r].op = "deleteStep" -> Goes(r, req[r], "ds_delete")
              [] req[r].op = "saveExisting" ->
                   Ends(r, req[r], Json(200, "Plan saved to profile successfully"))

\* await db.query('COMMIT'); the handler's own writes become the committed rows.
Commit(r) ==
  /\ req[r].pc = "commit"
  /\ plans' = ViewPlans(r)
  /\ steps' = ViewSteps(r)
  /\ wplans' = [wplans EXCEPT ![r] = NoWrites(PlanIds)]
  /\ wsteps' = [wsteps EXCEPT ![r] = NoWrites(StepIds)]
  /\ UNCHANGED <<nextStepId, faults, started, assigned>>
  /\ CASE req[r].op = "update" -> Goes(r, [req[r] EXCEPT !.inTx = FALSE], "reread")
       [] req[r].op = "complete" ->
            Ends(r, [req[r] EXCEPT !.inTx = FALSE], Json(200, "plan"))
       [] req[r].op = "delete" ->
            Ends(r, [req[r] EXCEPT !.inTx = FALSE], Json(200, "Plan deleted successfully"))

\* Mutant: the catch block ends the transaction without undoing its writes.
RollbackKeepsWrites(r) ==
  /\ req[r].pc = "rollback"
  /\ plans' = ViewPlans(r)
  /\ steps' = ViewSteps(r)
  /\ wplans' = [wplans EXCEPT ![r] = NoWrites(PlanIds)]
  /\ wsteps' = [wsteps EXCEPT ![r] = NoWrites(StepIds)]
  /\ UNCHANGED <<nextStepId, faults, started, assigned>>
  /\ Ends(r, [req[r] EXCEPT !.inTx = FALSE], req[r].err)

\* catch (err) { await db.query('ROLLBACK'); next(err); } finally { db.release(); }
Rollback(r) ==
  /\ req[r].pc = "rollback"
  /\ wplans' = [wplans EXCEPT ![r] = NoWrites(PlanIds)]
  /\ wsteps' = [wsteps EXCEPT ![r] = NoWrites(StepIds)]
  /\ UNCHANGED <<plans, steps, nextStepId, faults, started, assigned>>
  /\ Ends(r, [req[r] EXCEPT !.inTx = FALSE], req[r].err)

----------------------------------------------------------------------------
(* Rows a write statement targets, evaluated on the rows in `ps` and `ss` *)

PlanTargets(rq, ps) ==
  CASE rq.pc \in {"upd_plan", "del_plan"} -> OwnedPlan(ps, rq.planId, rq.userId)
    [] rq.pc = "cp_plan" -> {p \in PlanIds : p = rq.planId /\ ps[p] # Absent}
    [] OTHER -> {}

StepTargets(rq, ss) ==
  CASE rq.pc = "upd_step" ->
         IF rq.body.steps[rq.i].planStepId # None
           THEN StepOfPlan(ss, rq.body.steps[rq.i].planStepId, rq.planId)
           ELSE {}
    [] rq.pc = "cp_steps" ->
         {s \in StepsOfPlan(ss, rq.planId) : ss[s].completed = FALSE}
    [] rq.pc = "del_steps" -> StepsOfPlan(ss, rq.planId)
    [] rq.pc \in {"cs_update", "ds_delete"} -> StepOfPlan(ss, rq.stepId, rq.planId)
    [] OTHER -> {}

\* The statement request r is at can run: no committed row it targets is locked.
CanWrite(r) ==
  /\ PlansFree(r, PlanTargets(req[r], plans))
  /\ StepsFree(r, StepTargets(req[r], steps))

Matched(r) ==
  [plans |-> PlanTargets(req[r], ViewPlans(r)), steps |-> StepTargets(req[r], ViewSteps(r))]

----------------------------------------------------------------------------
(* PUT /api/plans/:planId *)

\* updatedPlan.isCompleted || false: a field the body lacks is undefined
OrFalse(body, field) == IF field \in DOMAIN body THEN body[field] ELSE FALSE

\* SET "grassSpeciesId" = $1, "planType" = $2, "isCompleted" = $3,
\*     "isArchived" = $4, "establishmentType" = $5
UpdatedPlanRow(row, body) ==
  [row EXCEPT !.grassSpeciesId = body.grassSpeciesId,
              !.planType = body.planType,
              !.isCompleted = OrFalse(body, "isCompleted"),
              !.isArchived = OrFalse(body, "isArchived"),
              !.establishmentType = body.establishmentType]

\* SET "stepDescription" = $1, "dueDate" = $2, "completed" = $3
UpdatedStepRow(row, step) ==
  [row EXCEPT !.stepDescription = step.stepDescription,
              !.dueDate = step.dueDate,
              !.completed = step.completed]

\* Columns an INSERT does not name take the column default.
DefaultCompletedAt == NULL
DefaultStepOrder == None

\* "PlanSteps"."userPlanId" carries no constraint that the store enforces: a
\* row is accepted whether or not `ps` holds the plan it names.
InsertAllowed(ps, row) == TRUE

\* INSERT INTO "PlanSteps" ("userPlanId", "templateId", "stepDescription",
\*                          "dueDate", "completed")
InsertedByUpdate(planId, step) ==
  [userPlanId |-> planId, templateId |-> NULL,
   stepDescription |-> step.stepDescription, dueDate |-> step.dueDate,
   completed |-> step.completed, completedAt |-> DefaultCompletedAt,
   stepOrder |-> DefaultStepOrder]

\* for (const step of updatedPlan.steps): where the loop goes after step i.
AfterStep(rq, i) ==
  IF i < Len(rq.body.steps)
    THEN [rq EXCEPT !.pc = "upd_step", !.i = i + 1]
    ELSE [rq EXCEPT !.pc = "commit", !.i = 0]

UpdatePlan(r) ==
  /\ req[r].pc = "upd_plan"
  /\ CanWrite(r)
  /\ UNCHANGED <<steps, wsteps, nextStepId, faults, started, assigned>>
  /\ IF Matched(r).plans = {}
       THEN /\ UNCHANGED <<plans, wplans>>
            /\ Throws(r, req[r], PlanNotFound)
       ELSE /\ WritePlans(r, Matched(r).plans,
                  [p \in PlanIds |->
                     IF p \in Matched(r).plans
                       THEN UpdatedPlanRow(ViewPlans(r)[p], req[r].body)
                       ELSE ViewPlans(r)[p]])
            /\ Becomes(r, AfterStep(req[r], 0))
            /\ checkedOut' = checkedOut

UpdateStep(r) ==
  LET step == req[r].body.steps[req[r].i]
  IN  /\ req[r].pc = "upd_step"
      /\ CanWrite(r)
      /\ UNCHANGED <<plans, wplans, faults, started, assigned>>
      /\ IF step.planStepId # None
           THEN /\ WriteSteps(r, Matched(r).steps,
                      [s \in StepIds |->
                         IF s \in Matched(r).steps
                           THEN UpdatedStepRow(ViewSteps(r)[s], step)
                           ELSE ViewSteps(r)[s]])
                /\ nextStepId' = nextStepId
           ELSE /\ nextStepId <= MaxStepId
                /\ InsertAllowed(ViewPlans(r), InsertedByUpdate(req[r].planId, step))
                /\ WriteSteps(r, {nextStepId},
                      [ViewSteps(r) EXCEPT ![nextStepId] =
                         InsertedByUpdate(req[r].planId, step)])
                /\ nextStepId' = nextStepId + 1
      /\ Becomes(r, AfterStep(req[r], req[r].i))
      /\ checkedOut' = checkedOut

----------------------------------------------------------------------------
(* PUT /api/plans/:planId/complete *)

\* SET "isCompleted" = true
CompletedPlanRow(row) == [row EXCEPT !.isCompleted = TRUE]

\* SET "completed" = true, "completedAt" = NOW()
CompletedStepRow(row) == [row EXCEPT !.completed = TRUE, !.completedAt = "now"]

CompletePlan(r) ==
  /\ req[r].pc = "cp_plan"
  /\ CanWrite(r)
  /\ UNCHANGED <<steps, wsteps, nextStepId, faults, started, assigned>>
  /\ WritePlans(r, Matched(r).plans,
        [p \in PlanIds |->
           IF p \in Matched(r).plans
             THEN CompletedPlanRow(ViewPlans(r)[p])
             ELSE ViewPlans(r)[p]])
  /\ Goes(r, req[r], "cp_steps")

CompleteSteps(r) ==
  /\ req[r].pc = "cp_steps"
  /\ CanWrite(r)
  /\ UNCHANGED <<plans, wplans, nextStepId, faults, started, assigned>>
  /\ WriteSteps(r, Matched(r).steps,
        [s \in StepIds |->
           IF s \in Matched(r).steps
             THEN CompletedStepRow(ViewSteps(r)[s])
             ELSE ViewSteps(r)[s]])
  /\ Goes(r, req[r], "commit")

----------------------------------------------------------------------------
(* DELETE /api/plans/:planId *)

DeleteSteps(r) ==
  /\ req[r].pc = "del_steps"
  /\ CanWrite(r)
  /\ UNCHANGED <<plans, wplans, nextStepId, faults, started, assigned>>
  /\ WriteSteps(r, Matched(r).steps,
        [s \in StepIds |-> IF s \in Matched(r).steps THEN Absent ELSE ViewSteps(r)[s]])
  /\ Goes(r, req[r], "del_plan")

DeletePlan(r) ==
  /\ req[r].pc = "del_plan"
  /\ CanWrite(r)
  /\ UNCHANGED <<steps, wsteps, nextStepId, faults, started, assigned>>
  /\ IF Matched(r).plans = {}
       THEN /\ UNCHANGED <<plans, wplans>>
            /\ Throws(r, req[r], PlanNotFound)
       ELSE /\ WritePlans(r, Matched(r).plans,
                  [p \in PlanIds |->
                     IF p \in Matched(r).plans THEN Absent ELSE ViewPlans(r)[p]])
            /\ Goes(r, req[r], "commit")

----------------------------------------------------------------------------
(* PUT /api/plans/:planId/steps/:stepId *)

\* SET "completed" = $1, "completedAt" = $2
ToggledStepRow(row, body) ==
  [row EXCEPT !.completed = body.completed, !.completedAt = body.completedAt]

CompleteStepUpdate(r) ==
  /\ req[r].pc = "cs_update"
  /\ CanWrite(r)
  /\ UNCHANGED <<plans, wplans, nextStepId, faults, started, assigned>>
  /\ WriteSteps(r, Matched(r).steps,
        [s \in StepIds |->
           IF s \in Matched(r).steps
             THEN ToggledStepRow(ViewSteps(r)[s], req[r].body)
             ELSE ViewSteps(r)[s]])
  /\ Ends(r, req[r], IF Matched(r).steps = {} THEN StepNotFound ELSE Json(200, "step"))

----------------------------------------------------------------------------
(* POST /api/plans/:planId/steps *)

Max(S) == CHOOSE x \in S : \A y \in S : y <= x

\* SELECT MAX("stepOrder") FROM "PlanSteps" WHERE "userPlanId" = $1
MaxStepOrder(view, planId) ==
  LET orders == {view[s].stepOrder : s \in StepsOfPlan(view, planId)} \ {None}
  IN  IF orders = {} THEN None ELSE Max(orders)

\* Mutant: the increment is applied to the default only.
MaxOrElseOne(maxOrder) == IF maxOrder = None THEN 0 + 1 ELSE maxOrder

\* (maxOrderResult.rows[0].maxOrder || 0) + 1
NewStepOrder(maxOrder) == (IF maxOrder = None THEN 0 ELSE maxOrder) + 1

\* INSERT INTO "PlanSteps" (..., "completed", "stepOrder") with
\* newStep.completed || false
InsertedByAddStep(planId, body, stepOrder) ==
  [userPlanId |-> planId, templateId |-> NULL,
   stepDescription |-> body.stepDescription, dueDate |-> body.dueDate,
   completed |-> OrFalse(body, "completed"), completedAt |-> DefaultCompletedAt,
   stepOrder |-> stepOrder]

MaxOrderQuery(r) ==
  /\ req[r].pc = "max"
  /\ UNCHANGED <<plans, steps, nextStepId, wplans, wsteps, faults, started, assigned>>
  /\ Goes(r, [req[r] EXCEPT !.newStepOrder =
                  NewStepOrder(MaxStepOrder(ViewSteps(r), req[r].planId))],
          "insert")

InsertStep(r) ==
  /\ req[r].pc = "insert"
  /\ nextStepId <= MaxStepId
  /\ InsertAllowed(ViewPlans(r),
                   InsertedByAddStep(req[r].planId, req[r].body, req[r].newStepOrder))
  /\ UNCHANGED <<plans, wplans, faults, started>>
  /\ assigned' = [assigned EXCEPT ![req[r].planId] =
                    IF req[r].newStepOrder > @ THEN req[r].newStepOrder ELSE @]
  /\ WriteSteps(r, {nextStepId},
        [ViewSteps(r) EXCEPT ![nextStepId] =
           InsertedByAddStep(req[r].planId, req[r].body, req[r].newStepOrder)])
  /\ nextStepId' = nextStepId + 1
  /\ Ends(r, req[r], Json(201, "step"))

----------------------------------------------------------------------------
(* DELETE /api/plans/:planId/steps/:stepId *)

DeleteStep(r) ==
  /\ req[r].pc = "ds_delete"
  /\ CanWrite(r)
  /\ UNCHANGED <<plans, wplans, nextStepId, faults, started, assigned>>
  /\ WriteSteps(r, Matched(r).steps,
        [s \in StepIds |-> IF s \in Matched(r).steps THEN Absent ELSE ViewSteps(r)[s]])
  /\ Ends(r, req[r],
          IF Matched(r).steps = {}
            THEN StepNotFound
            ELSE Json(200, "Step deleted successfully"))

----------------------------------------------------------------------------
(* GET /api/plans/:planId and GET /api/users/:userId/plans *)

\* A record with field f set to v, as { ...rec, f: v } builds it.
WithField(rec, f, v) ==
  [g \in DOMAIN rec \cup {f} |-> IF g = f THEN v ELSE rec[g]]

\* up.* with gs.name as "grassSpeciesName", for the plans in `ids` that have a
\* "GrassSpecies" row to join.
PlanRows(view, ids) ==
  {WithField(view[p], "grassSpeciesName", GrassSpecies[view[p].grassSpeciesId].name) :
     p \in {q \in ids : view[q].grassSpeciesId \in DOMAIN GrassSpecies}}

\* A "PlanSteps" row as a query returns it, with its planStepId column.
StepRow(view, s) == WithField(view[s], "planStepId", s)

\* The orders a query may return the rows `S` in: every row once.
Orderings(S) ==
  {q \in [1..Cardinality(S) -> S] : \A x \in S : \E i \in DOMAIN q : q[i] = x}

\* Mutant: the query has no ORDER BY.
InAnyOrder(q, view) == TRUE

\* ORDER BY "dueDate" ASC on the steps q names; rows with equal dueDate come
\* in any order.
InDueOrder(q, view) ==
  \A i, j \in DOMAIN q : i < j => view[q[i]].dueDate <= view[q[j]].dueDate

\* stepsResult.rows.filter((step) => step.planStepId !== null)
HasStepId(row) == row.planStepId # None

GetPlan(r) ==
  /\ req[r].pc = "get_plan"
  /\ UNCHANGED <<plans, steps, nextStepId, wplans, wsteps, faults, started, assigned>>
  /\ LET rows == PlanRows(ViewPlans(r),
                          OwnedPlan(ViewPlans(r), req[r].planId, req[r].userId))
     IN  IF rows = {}
           THEN Ends(r, req[r], PlanNotFound)
           ELSE \E plan \in rows : Goes(r, [req[r] EXCEPT !.plan = plan], "get_steps")

GetSteps(r) ==
  /\ req[r].pc = "get_steps"
  /\ UNCHANGED <<plans, steps, nextStepId, wplans, wsteps, faults, started, assigned>>
  /\ \E q \in Orderings(StepsOfPlan(ViewSteps(r), req[r].planId)) :
       /\ InDueOrder(q, ViewSteps(r))
       /\ LET rows == [i \in DOMAIN q |-> StepRow(ViewSteps(r), q[i])]
              userPlan == WithField(req[r].plan, "steps", SelectSeq(rows, HasStepId))
          IN  Ends(r, [req[r] EXCEPT !.sent = userPlan], Json(200, "plan"))

\* The ps.* columns of a row the LEFT JOIN found no step for.
NoStep ==
  [planStepId |-> None, userPlanId |-> None, templateId |-> NULL,
   stepDescription |-> NULL, dueDate |-> None, completed |-> NULL,
   completedAt |-> NULL, stepOrder |-> None]

\* The object pg builds from a result row: the columns are assigned by name in
\* select-list order, so a later column replaces an earlier one of its name.
Merge(first, later) ==
  [f \in DOMAIN first \cup DOMAIN later |->
     IF f \in DOMAIN later THEN later[f] ELSE first[f]]

\* "UserPlans" up JOIN "GrassSpecies" gs LEFT JOIN "PlanSteps" ps
\*   ON up."userPlanId" = ps."userPlanId", for the plans in `ids`:
\* the (plan, step) pairs of the result, a plan without steps paired with None.
JoinPairs(pview, sview, ids) ==
  LET joined == {p \in ids : pview[p].grassSpeciesId \in DOMAIN GrassSpecies}
  IN  {<<p, s>> : p \in joined, s \in StepIds \cup {None}}
        \cap {pair \in PlanIds \X (StepIds \cup {None}) :
                IF pair[2] = None
                  THEN StepsOfPlan(sview, pair[1]) = {}
                  ELSE pair[2] \in StepsOfPlan(sview, pair[1])}

\* SELECT up.*, gs.name as "grassSpeciesName", ps.*
JoinedRow(pview, sview, pair) ==
  Merge(WithField(pview[pair[1]], "grassSpeciesName",
                  GrassSpecies[pview[pair[1]].grassSpeciesId].name),
        IF pair[2] = None THEN NoStep ELSE StepRow(sview, pair[2]))

\* ps."dueDate" ASC: NULL sorts after every date.
DueBefore(sview, s, t) ==
  \/ t = None
  \/ s # None /\ sview[s].dueDate <= sview[t].dueDate

\* ORDER BY up."createdAt" DESC, ps."dueDate" ASC
InListOrder(q, pview, sview) ==
  \A i, j \in DOMAIN q :
    i < j =>
      \/ pview[q[i][1]].createdAt > pview[q[j][1]].createdAt
      \/ /\ pview[q[i][1]].createdAt = pview[q[j][1]].createdAt
         /\ DueBefore(sview, q[i][2], q[j][2])

\* plan = { userPlanId: row.userPlanId, ..., steps: [] }
PlanEntry(row) ==
  [userPlanId |-> row.userPlanId, userId |-> row.userId,
   grassSpeciesId |-> row.grassSpeciesId, grassSpeciesName |-> row.grassSpeciesName,
   establishmentType |-> row.establishmentType, planType |-> row.planType,
   isCompleted |-> row.isCompleted, isArchived |-> row.isArchived,
   createdAt |-> row.createdAt, completedAt |-> row.completedAt,
   steps |-> <<>>]

\* plan.steps.push({ planStepId: row.planStepId, ... })
StepEntry(row) ==
  [planStepId |-> row.planStepId, userPlanId |-> row.userPlanId,
   templateId |-> row.templateId, stepDescription |-> row.stepDescription,
   dueDate |-> row.dueDate, completed |-> row.completed,
   completedAt |-> row.completedAt, createdAt |-> row.createdAt]

Min(S) == CHOOSE x \in S : \A y \in S : x <= y

\* plansResult.rows.forEach((row) => { ... }) from row i on, `acc` being the
\* plans array so far.
RECURSIVE GroupRows(_, _, _)
GroupRows(rows, i, acc) ==
  IF i > Len(rows) THEN acc
  ELSE LET row == rows[i]
           found == {k \in DOMAIN acc : acc[k].userPlanId = row.userPlanId}
           listed == IF found = {} THEN Append(acc, PlanEntry(row)) ELSE acc
           k == IF found = {} THEN Len(listed) ELSE Min(found)
           pushed == IF row.planStepId # None
                       THEN [listed EXCEPT ![k].steps = Append(@, StepEntry(row))]
                       ELSE listed
       IN  GroupRows(rows, i + 1, pushed)

\* WHERE up."userId" = $1
PlansOfUser(view, userId) ==
  {p \in PlanIds : view[p] # Absent /\ view[p].userId = userId}

ListQuery(r) ==
  /\ req[r].pc = "list_query"
  /\ UNCHANGED <<plans, steps, nextStepId, wplans, wsteps, faults, started, assigned>>
  /\ \E q \in Orderings(JoinPairs(ViewPlans(r), ViewSteps(r),
                                  PlansOfUser(ViewPlans(r), req[r].pathUser))) :
       /\ InListOrder(q, ViewPlans(r), ViewSteps(r))
       /\ LET rows == [i \in DOMAIN q |-> JoinedRow(ViewPlans(r), ViewSteps(r), q[i])]
          IN  Ends(r, [req[r] EXCEPT !.sent = [plans |-> GroupRows(rows, 1, <<>>)]],
                   Json(200, "plans"))

\* steps: updatedPlanResult.rows.map((row) => ({ planStepId: ..., ... }))
RereadEntry(row) ==
  [planStepId |-> row.planStepId, stepDescription |-> row.stepDescription,
   dueDate |-> row.dueDate, completed |-> row.completed]

\* ORDER BY ps."dueDate" ASC
InRereadOrder(q, sview) ==
  \A i, j \in DOMAIN q : i < j => DueBefore(sview, q[i][2], q[j][2])

\* { ...updatedPlanResult.rows[0], steps: ... }: spreading undefined adds nothing
FinalPlan(rows) ==
  WithField(IF rows = <<>> THEN <<>> ELSE rows[1], "steps",
            [i \in DOMAIN rows |-> RereadEntry(rows[i])])

\* PUT /api/plans/:planId after COMMIT: the SELECT that re-reads the plan with
\* its steps, then res.json(finalPlan)
Reread(r) ==
  /\ req[r].pc = "reread"
  /\ UNCHANGED <<plans, steps, nextStepId, wplans, wsteps, faults, started, assigned>>
  /\ \E q \in Orderings(JoinPairs(ViewPlans(r), ViewSteps(r),
                                  {p \in PlanIds : p = req[r].planId
                                                     /\ ViewPlans(r)[p] # Absent})) :
       /\ InRereadOrder(q, ViewSteps(r))
       /\ LET rows == [i \in DOMAIN q |-> JoinedRow(ViewPlans(r), ViewSteps(r), q[i])]
          IN  Ends(r, [req[r] EXCEPT !.sent = FinalPlan(rows)], Json(200, "plan"))

----------------------------------------------------------------------------
(* Store failures *)

\* Requests waiting for each other's row locks: PostgreSQL's deadlock detector
\* makes the statement of one of them fail.
WaitsFor(r, o) ==
  /\ r # o
  /\ \/ \E p \in PlanTargets(req[r], plans) : wplans[o][p] # Untouched
     \/ \E s \in StepTargets(req[r], steps) : wsteps[o][s] # Untouched

RECURSIVE WaitChain(_, _, _)
WaitChain(a, b, n) ==
  \/ WaitsFor(a, b)
  \/ n > 0 /\ \E c \in Slots : WaitsFor(a, c) /\ WaitChain(c, b, n - 1)

Deadlocked(r) == WaitChain(r, r, NumSlots)

\* A rejected await: what the handler does with the error depends on where it is.
Fails(r) ==
  LET rq == [req[r] EXCEPT !.failedAt = req[r].pc]
  IN  CASE rq.pc = "connect" ->
             \* pool.connect() is outside the try block
             /\ Becomes(r, [rq EXCEPT !.pc = "done", !.outcome = Rejected])
             /\ UNCHANGED <<checkedOut, wplans, wsteps>>
        [] rq.pc = "rollback" ->
             \* the catch block throws: next(err) is skipped, finally still runs;
             \* the session is gone and the server aborts its transaction
             /\ wplans' = [wplans EXCEPT ![r] = NoWrites(PlanIds)]
             /\ wsteps' = [wsteps EXCEPT ![r] = NoWrites(StepIds)]
             /\ Ends(r, [rq EXCEPT !.inTx = FALSE], Rejected)
        [] OTHER ->
             /\ UNCHANGED <<wplans, wsteps>>
             /\ Raise(r, rq, StoreError)

StoreFault(r) ==
  /\ req[r].pc \notin {"idle", "done"}
  /\ faults < MaxFaults
  /\ faults' = faults + 1
  /\ UNCHANGED <<plans, steps, nextStepId, started, assigned>>
  /\ Fails(r)

DeadlockDetected(r) ==
  /\ Deadlocked(r)
  /\ UNCHANGED <<plans, steps, nextStepId, started, faults, assigned>>
  /\ Fails(r)

----------------------------------------------------------------------------
(* Requests *)

PlanBodies ==
  {[grassSpeciesId |-> 2, planType |-> "lawn_improvement", isArchived |-> TRUE,
    establishmentType |-> NULL],
   [grassSpeciesId |-> 1, planType |-> "new_lawn", isCompleted |-> TRUE,
    establishmentType |-> "sod_plugs"]}

StepEdit(id, completed) ==
  [planStepId |-> id, stepDescription |-> "Aerate", dueDate |-> 2,
   completed |-> completed]

StepLists ==
  {<<>>}
    \cup {<<StepEdit(None, TRUE)>>}
    \cup {<<StepEdit(id, TRUE), StepEdit(None, FALSE)>> : id \in StepIds}

WithSteps(b, l) ==
  [f \in DOMAIN b \cup {"steps"} |-> IF f = "steps" THEN l ELSE b[f]]

UpdateBodies == {WithSteps(b, l) : b \in PlanBodies, l \in StepLists}

CompleteStepBodies ==
  {[completed |-> TRUE, completedAt |-> "client"],
   [completed |-> TRUE, completedAt |-> NULL],
   [completed |-> FALSE, completedAt |-> NULL]}

AddStepBodies ==
  {[stepDescription |-> "Mow", dueDate |-> 1],
   [stepDescription |-> "Mow", dueDate |-> 1, completed |-> TRUE]}

Bodies(op) ==
  CASE op = "update" -> UpdateBodies
    [] op = "completeStep" -> CompleteStepBodies
    [] op = "addStep" -> AddStepBodies
    [] OTHER -> {Absent}

StepParams(op) == IF op \in {"completeStep", "deleteStep"} THEN StepIds ELSE {None}

\* The :userId of the path, for the two routes that have one.
PathUsers(op) == IF op \in {"listForUser", "saveExisting"} THEN Users ELSE {None}

PlanParams(op) == IF op = "listForUser" THEN {None} ELSE PlanIds \cup {UnusedPlanId}

\* Rows the request may still insert: the sequence has MaxStepId values.
RECURSIVE InsertsFrom(_, _)
InsertsFrom(list, i) ==
  IF i > Len(list) THEN 0
  ELSE (IF list[i].planStepId = None THEN 1 ELSE 0) + InsertsFrom(list, i + 1)

Pending(rq) ==
  CASE rq.op = "addStep" /\ rq.pc \in {"connect", "check", "max", "insert"} -> 1
    [] rq.op = "update" /\ rq.pc \in {"connect", "begin", "upd_plan"} ->
         InsertsFrom(rq.body.steps, 1)
    [] rq.op = "update" /\ rq.pc = "upd_step" -> InsertsFrom(rq.body.steps, rq.i)
    [] OTHER -> 0

RECURSIVE PendingIn(_)
PendingIn(S) ==
  IF S = {} THEN 0
  ELSE LET r == CHOOSE x \in S : TRUE IN Pending(req[r]) + PendingIn(S \ {r})

\* Mutant: the :userId of the path is not compared with the caller.
ReceivedUnchecked(op, userId, pathUser, planId, stepId, body) ==
  [Idle EXCEPT !.op = op, !.userId = userId, !.pathUser = pathUser,
               !.planId = planId, !.stepId = stepId, !.body = body,
               !.pc = "connect"]

\* The handler up to its first await: the two routes with a :userId compare it
\* with the authenticated identity before anything else.
Received(op, userId, pathUser, planId, stepId, body) ==
  LET rq == [Idle EXCEPT !.op = op, !.userId = userId, !.pathUser = pathUser,
                         !.planId = planId, !.stepId = stepId, !.body = body]
  IN  IF pathUser # None /\ pathUser # userId
        THEN [rq EXCEPT !.pc = "done",
                        !.outcome = ClientError(403,
                           IF op = "saveExisting"
                             THEN "Unauthorized to save plan for this user"
                             ELSE "Unauthorized to access plans for this user")]
        ELSE [rq EXCEPT !.pc = "connect"]

InFlight(r) == req[r].pc \notin {"idle", "done"}

\* A request arrives and handler invocation r runs up to its first await.
Receive(r) ==
  /\ started' = started + 1
  /\ UNCHANGED <<plans, steps, nextStepId, wplans, wsteps, checkedOut, faults, assigned>>
  /\ \E op \in Ops, userId \in Users :
       \E pathUser \in PathUsers(op), planId \in PlanParams(op),
          stepId \in StepParams(op), body \in Bodies(op) :
         LET rq == Received(op, userId, pathUser, planId, stepId, body)
         IN  /\ nextStepId + PendingIn(Slots \ {r}) + Pending(rq) <= MaxStepId + 1
             /\ req' = [req EXCEPT ![r] = rq]

\* Requests one after the other: the next arrives when the last has ended.
Start(r) ==
  /\ r = 1
  /\ \A o \in Slots : ~InFlight(o)
  /\ started < MaxRequests
  /\ Receive(r)

\* Requests that overlap: each invocation serves one request, and the
\* invocations are numbered in the order their requests arrive.
StartConcurrent(r) ==
  /\ req[r].pc = "idle"
  /\ \A o \in Slots : o < r => req[o].pc # "idle"
  /\ Receive(r)

----------------------------------------------------------------------------

FreshStore ==
  /\ plans = [p \in PlanIds |-> InitialPlan(p)]
  /\ steps = [s \in StepIds |-> Absent]
  /\ nextStepId = 1
  /\ assigned = [p \in PlanIds |-> 0]

\* The store after the owner of plan 1 has appended one step to it with
\* POST /api/plans/1/steps {stepDescription: "Mow", dueDate: 1}.
OneStepStore ==
  /\ plans = [p \in PlanIds |-> InitialPlan(p)]
  /\ steps = [s \in StepIds |->
                IF s = 1
                  THEN InsertedByAddStep(1, [stepDescription |-> "Mow", dueDate |-> 1],
                                         NewStepOrder(None))
                  ELSE Absent]
  /\ nextStepId = 2
  /\ assigned = [p \in PlanIds |-> IF p = 1 THEN NewStepOrder(None) ELSE 0]

Quiet ==
  /\ req = [r \in Slots |-> Idle]
  /\ wplans = [r \in Slots |-> NoWrites(PlanIds)]
  /\ wsteps = [r \in Slots |-> NoWrites(StepIds)]
  /\ checkedOut = 0
  /\ faults = 0
  /\ started = 0

Init == FreshStore /\ Quiet

ConcInit == (FreshStore \/ OneStepStore) /\ Quiet

Handles(r) ==
  \/ Connect(r)
  \/ Begin(r)
  \/ Check(r)
  \/ Commit(r)
  \/ Rollback(r)
  \/ UpdatePlan(r)
  \/ UpdateStep(r)
  \/ Reread(r)
  \/ CompletePlan(r)
  \/ CompleteSteps(r)
  \/ DeleteSteps(r)
  \/ DeletePlan(r)
  \/ CompleteStepUpdate(r)
  \/ MaxOrderQuery(r)
  \/ InsertStep(r)
  \/ DeleteStep(r)
  \/ GetPlan(r)
  \/ GetSteps(r)
  \/ ListQuery(r)
  \/ StoreFault(r)

Next == \E r \in Slots : Start(r) \/ Handles(r)

ConcNext == \E r \in Slots : StartConcurrent(r) \/ Handles(r) \/ DeadlockDetected(r)

\* Requests handled one at a time, from freshly created plans.
Spec == Init /\ [][Next]_vars

\* NumSlots requests that overlap at statement granularity.
ConcSpec == ConcInit /\ [][ConcNext]_vars

----------------------------------------------------------------------------
(* Properties *)

Done(r) == req[r].pc = "done"

\* The request names a plan its user does not own.
Intruder(rq) == rq.planId \in PlanIds /\ rq.userId # InitialOwner(rq.planId)

Succeeded(rq) == rq.pc = "done" /\ rq.outcome.via = "json"

\* C1: a mutating operation called by a user who does not own the plan never
\* changes the committed UserPlans or PlanSteps rows, and, unless a store call
\* of the request failed, it ends with 404 "Plan not found".
C1_NonOwnerChangesNothing ==
  \A r \in Slots :
    (req[r].op \in MutatingOps /\ Intruder(req[r])) =>
      /\ ~req[r].wrote
      /\ (Done(r) /\ req[r].failedAt = "") => req[r].outcome = PlanNotFound

\* C1 witness: user A's DELETE of user B's plan, which has a step, has ended
\* with 404 and the step is still there.
C1_Witness ==
  \E r \in Slots :
    /\ Done(r) /\ req[r].op = "delete" /\ Intruder(req[r])
    /\ req[r].outcome = PlanNotFound
    /\ StepsOfPlan(steps, req[r].planId) # {}

\* C2: delete is atomic. A step of a delete request that changes the committed
\* store removes the plan row, removes nothing but rows of that plan, and is
\* the step that answers 200; a delete that ends otherwise has changed nothing;
\* and when no other request has arrived, no step of the plan is left.
C2_DeleteAtomic ==
  [][\A r \in Slots :
       (req[r].op = "delete" /\ req'[r] # req[r]) =>
         LET p == req[r].planId
         IN  /\ (plans' # plans \/ steps' # steps) =>
                   /\ plans[p] # Absent /\ plans'[p] = Absent
                   /\ \A q \in PlanIds \ {p} : plans'[q] = plans[q]
                   /\ \A s \in StepIds :
                        steps'[s] # steps[s] =>
                          /\ steps[s] # Absent /\ steps[s].userPlanId = p
                          /\ steps'[s] = Absent
                   /\ Succeeded(req'[r])
                   /\ (\A o \in Slots \ {r} : req[o].pc = "idle") =>
                        StepsOfPlan(steps', p) = {}
             /\ (req'[r].pc = "done" /\ ~Succeeded(req'[r])) => ~req'[r].wrote
    ]_vars

\* C2 witness: a delete has committed the removal of a plan that had a step.
C2_Witness ==
  \E r \in Slots :
    /\ Succeeded(req[r]) /\ req[r].op = "delete" /\ req[r].wrote
    /\ plans[req[r].planId] = Absent
    /\ nextStepId > 1

\* C3: an update one of whose step writes failed has changed no committed row:
\* the plan's scalar fields and all steps are as before the request.
C3_UpdateAllOrNothing ==
  \A r \in Slots :
    (req[r].op = "update" /\ req[r].failedAt = "upd_step") => ~req[r].wrote

\* C3 witness: the owner's update edited an existing step of the plan, then its
\* second step write failed, and the handler has finished.
C3_Witness ==
  \E r \in Slots :
    /\ Done(r) /\ req[r].op = "update" /\ ~Intruder(req[r])
    /\ req[r].failedAt = "upd_step" /\ req[r].i = 2
    /\ req[r].body.steps[1].planStepId \in StepsOfPlan(steps, req[r].planId)

\* The stepOrder values of the plan's steps, as SELECT MAX("stepOrder") sees them.
OrdersOf(ss, planId) == {ss[s].stepOrder : s \in StepsOfPlan(ss, planId)} \ {None}

Created(rq) == rq.pc = "done" /\ rq.outcome = Json(201, "step")

\* C4 as claimed: every successful addStep assigns a stepOrder strictly greater
\* than the stepOrder any earlier addStep assigned on that plan, and 1 on a plan
\* without steps, whatever deleteStep and update did in between.
C4_StrictlyIncreasing ==
  [][\A r \in Slots :
       (req[r].pc = "insert" /\ Created(req'[r])) =>
         /\ req[r].newStepOrder > assigned[req[r].planId]
         /\ StepsOfPlan(steps, req[r].planId) = {} => req[r].newStepOrder = 1
    ]_vars

\* C4 amended: the stepOrder addStep computes is 1 when the plan has no step
\* with a stepOrder at the time of its MAX query and otherwise strictly greater
\* than the stepOrder of every step the plan has at that time, and the row it
\* inserts carries that stepOrder.
C4_AboveStepsSeen ==
  [][\A r \in Slots :
       /\ (req[r].pc = "max" /\ req'[r].pc = "insert") =>
            /\ OrdersOf(steps, req[r].planId) = {} => req'[r].newStepOrder = 1
            /\ \A o \in OrdersOf(steps, req[r].planId) : req'[r].newStepOrder > o
       /\ (req[r].pc = "insert" /\ Created(req'[r])) =>
            /\ steps[nextStepId] = Absent
            /\ steps'[nextStepId] # Absent
            /\ steps'[nextStepId].userPlanId = req[r].planId
            /\ steps'[nextStepId].stepOrder = req[r].newStepOrder
    ]_vars

\* C4 witness: addStep has appended a second step to a plan, with stepOrder 2.
C4_Witness ==
  \E r \in Slots :
    /\ Created(req[r]) /\ req[r].op = "addStep" /\ req[r].newStepOrder = 2
    /\ \E s \in StepsOfPlan(steps, req[r].planId) : steps[s].stepOrder = 1

\* C5 as claimed: whenever a step of completeStep or complete writes a step row
\* that is completed afterwards, the row has a completion timestamp.
C5_CompletedHasTimestamp ==
  [][\A r \in Slots :
       (req[r].op \in {"completeStep", "complete"} /\ req'[r] # req[r]) =>
         \A s \in StepIds :
           (steps'[s] # steps[s] /\ steps'[s] # Absent /\ steps'[s].completed) =>
             steps'[s].completedAt # NULL
    ]_vars

\* C6 as claimed: once complete has answered 200, the plan is completed and
\* every step of the plan is completed and has a completion timestamp.
C6_CompleteCompletesAll ==
  \A r \in Slots :
    (Succeeded(req[r]) /\ req[r].op = "complete") =>
      /\ plans[req[r].planId] # Absent
      /\ plans[req[r].planId].isCompleted
      /\ \A s \in StepsOfPlan(steps, req[r].planId) :
           steps[s].completed /\ steps[s].completedAt # NULL

\* C7 as claimed: a plan row that is completed stays completed for as long as
\* the row exists.
C7_CompletionIrreversible ==
  [][\A p \in PlanIds :
       (plans[p] # Absent /\ plans[p].isCompleted /\ plans'[p] # Absent) =>
         plans'[p].isCompleted
    ]_vars

\* C8 as claimed: every committed PlanSteps row names an existing UserPlans row.
C8_NoOrphanSteps ==
  \A s \in StepIds : steps[s] # Absent => plans[steps[s].userPlanId] # Absent

\* C9 as claimed: an update, complete or delete that has ended by passing an
\* error to next has changed no committed row.
C9_ErrorLeavesNothingCommitted ==
  \A r \in Slots :
    (Done(r) /\ req[r].op \in TxOps /\ req[r].outcome.via = "next") => ~req[r].wrote

\* C10: a handler holds at most one connection, has not released it while it
\* still runs, has released it exactly once when it has finished, and when no
\* request is in flight no connection is checked out of the pool.
C10_ConnectionsReleased ==
  /\ \A r \in Slots :
       /\ req[r].acquired <= 1
       /\ InFlight(r) => req[r].released = 0
       /\ Done(r) => req[r].released = req[r].acquired
  /\ (\A r \in Slots : ~InFlight(r)) => checkedOut = 0

\* C10 witness: a handler whose ROLLBACK failed inside the catch block has
\* finished and has released its connection.
C10_Witness ==
  \E r \in Slots :
    /\ Done(r) /\ req[r].failedAt = "rollback"
    /\ req[r].acquired = 1 /\ req[r].released = 1

\* The endpoints that name a plan.
PlanScoped == MutatingOps \cup {"get", "saveExisting"}

\* Two requests that differ in the plan they name only.
SameButPlan(a, b) ==
  /\ a.op = b.op /\ a.userId = b.userId /\ a.pathUser = b.pathUser
  /\ a.stepId = b.stepId /\ a.body = b.body

\* The plan the request names exists and belongs to another user.
NamesForeign(rq) ==
  /\ rq.planId \in PlanIds /\ plans[rq.planId] # Absent
  /\ plans[rq.planId].userId # rq.userId

\* C11: absent and not-owned are indistinguishable. Of two requests to the same
\* plan-scoped endpoint by the same caller with the same parameters and body,
\* one naming a plan of another user and one naming a plan id that does not
\* exist, both answered without a store failure, the responses (how the
\* request ended, status and message) are equal, whatever steps the other
\* user's plan has.
C11_AbsentLikeForeign ==
  \A a, b \in Slots :
    ( /\ Done(a) /\ Done(b) /\ req[a].failedAt = "" /\ req[b].failedAt = ""
      /\ req[a].op \in PlanScoped /\ SameButPlan(req[a], req[b])
      /\ NamesForeign(req[a]) /\ req[b].planId = UnusedPlanId )
    => req[a].outcome = req[b].outcome

\* C11 witness: user A's DELETE of user B's plan, which has a step, and user
\* A's DELETE of a plan id that does not exist have both ended with 404.
C11_Witness ==
  \E a, b \in Slots :
    /\ Done(a) /\ Done(b) /\ req[a].failedAt = "" /\ req[b].failedAt = ""
    /\ req[a].op = "delete" /\ SameButPlan(req[a], req[b])
    /\ NamesForeign(req[a]) /\ req[b].planId = UnusedPlanId
    /\ StepsOfPlan(steps, req[a].planId) # {}
    /\ req[a].outcome = PlanNotFound /\ req[b].outcome = PlanNotFound

Forbidden == ClientError(403, "Unauthorized to save plan for this user")
NotSaved == ClientError(404, "Plan not found or does not belong to the user")
Saved == Json(200, "Plan saved to profile successfully")

\* C12: saveExisting never changes UserPlans or PlanSteps; when the path user
\* is not the caller it ends with 403 without having taken a connection; and
\* when it ends without a store failure otherwise, it ends with 404 if the
\* store holds no plan (planId, userId) at its check and with 200 if it does.
C12_SaveExisting ==
  [][\A r \in Slots :
       req'[r].op = "saveExisting" =>
         /\ ~req'[r].wrote
         /\ req'[r].pathUser # req'[r].userId =>
              /\ req'[r].pc = "done" /\ req'[r].outcome = Forbidden
              /\ req'[r].acquired = 0
         /\ ( /\ req'[r].pathUser = req'[r].userId
              /\ req[r].pc # "done" /\ req'[r].pc = "done"
              /\ req'[r].failedAt = "" ) =>
              req'[r].outcome =
                IF OwnedPlan(plans, req[r].planId, req[r].pathUser) = {}
                  THEN NotSaved ELSE Saved
    ]_vars

\* C12 witness: a saveExisting naming another user's path and that user's plan
\* has ended with 403 before any store access, and one by the owner has ended
\* with 200.
C12_Witness ==
  \E a, b \in Slots :
    /\ req[a].op = "saveExisting" /\ Done(a) /\ req[a].outcome = Forbidden
    /\ req[a].acquired = 0
    /\ OwnedPlan(plans, req[a].planId, req[a].pathUser) # {}
    /\ req[b].op = "saveExisting" /\ Done(b) /\ req[b].outcome = Saved

\* The columns of a "UserPlans" row.
PlanColumns == DOMAIN InitialPlan(1)

C14_ListGroupsPlans ==
  \A r \in Slots :
    (req[r].op = "listForUser" /\ Done(r) /\ req[r].outcome = Json(200, "plans")) =>
      LET listed == req[r].sent.plans
          own == PlansOfUser(plans, req[r].pathUser)
      IN  /\ Len(listed) = Cardinality(own)
          /\ \A k \in DOMAIN listed : listed[k].userPlanId \in own
          /\ {listed[k].userPlanId : k \in DOMAIN listed} = own
          /\ \A k \in DOMAIN listed :
               LET p == listed[k].userPlanId
               IN  /\ \A c \in PlanColumns : listed[k][c] = plans[p][c]
                   /\ Len(listed[k].steps) = Cardinality(StepsOfPlan(steps, p))
                   /\ {listed[k].steps[i].planStepId : i \in DOMAIN listed[k].steps}
                        = StepsOfPlan(steps, p)
                   /\ \A i, j \in DOMAIN listed[k].steps :
                        i < j => listed[k].steps[i].dueDate <= listed[k].steps[j].dueDate
          /\ \A k, l \in DOMAIN listed :
               k < l => listed[k].createdAt >= listed[l].createdAt

\* C15 as claimed: the steps array a successful update returns holds exactly
\* one entry per step the plan has in the store after the commit, and is
\* empty when the plan has none.
C15_UpdateReturnsStoredSteps ==
  \A r \in Slots :
    (req[r].op = "update" /\ Succeeded(req[r])) =>
      LET p == req[r].planId
          sent == req[r].sent
      IN  /\ Len(sent.steps) = Cardinality(StepsOfPlan(steps, p))
          /\ {sent.steps[i].planStepId : i \in DOMAIN sent.steps} = StepsOfPlan(steps, p)

\* The step the request names by id is a step of a plan other than the one
\* the request names.
NamesStepElsewhere(rq, id) ==
  /\ id \in StepIds /\ steps[id] # Absent
  /\ steps[id].userPlanId # rq.planId

\* C16: step writes are scoped to the plan the request names. A step of an
\* update, completeStep, deleteStep, complete or delete called with planId P
\* changes, removes or adds no "PlanSteps" row of a plan other than P; and a
\* completeStep or deleteStep by P's owner that names a step of another plan
\* ends with 404 "Step not found" unless its store call failed.
C16_StepWritesScoped ==
  [][\A r \in Slots :
       ( /\ req[r].op \in {"update", "completeStep", "deleteStep", "complete", "delete"}
         /\ req'[r] # req[r] ) =>
         /\ \A s \in StepIds :
              steps'[s] # steps[s] =>
                /\ steps[s] # Absent => steps[s].userPlanId = req[r].planId
                /\ steps'[s] # Absent => steps'[s].userPlanId = req[r].planId
         /\ ( /\ req[r].pc \in {"cs_update", "ds_delete"}
              /\ req'[r].pc = "done" /\ req'[r].failedAt = ""
              /\ NamesStepElsewhere(req[r], req[r].stepId) ) =>
              req'[r].outcome = StepNotFound
    ]_vars

\* C16 witness: the owner of a plan has called completeStep on it with the id
\* of a step of another user's plan; the request has ended with 404 and that
\* step is as it was, not completed.
C16_Witness ==
  \E r \in Slots :
    /\ Done(r) /\ req[r].op = "completeStep" /\ req[r].body.completed
    /\ OwnedPlan(plans, req[r].planId, req[r].userId) # {}
    /\ NamesStepElsewhere(req[r], req[r].stepId)
    /\ plans[steps[req[r].stepId].userPlanId] # Absent
    /\ plans[steps[req[r].stepId].userPlanId].userId # req[r].userId
    /\ ~steps[req[r].stepId].completed
    /\ req[r].outcome = StepNotFound

\* C17 as claimed: a handler invocation that has finished has ended its
\* request, by a JSON response or by an error passed to next, also when
\* pool.connect() or the ROLLBACK of the catch block failed.
C17_HandlerEndsRequest ==
  \A r \in Slots : Done(r) => req[r].outcome.via \in {"json", "next"}

\* C18 as claimed: whatever way addStep requests for a plan interleave, no two
\* steps of one plan carry the same stepOrder.
C18_NoDuplicateStepOrder ==
  \A s, t \in StepIds :
    ( /\ s # t /\ steps[s] # Absent /\ steps[t] # Absent
      /\ steps[s].userPlanId = steps[t].userPlanId
      /\ steps[s].stepOrder # None )
    => steps[s].stepOrder # steps[t].stepOrder

====
